---- MODULE Spec2Model ----
(***************************************************************************)
(* A model of src/ploomber/cli/cloud.py: the stored cloud API key, the     *)
(* three pipeline operations (get, write, delete) with their connection    *)
(* handling and the module-level `headers` dictionary, and the             *)
(* cloud_wrapper lifecycle decorator.                                      *)
(*                                                                         *)
(* Python values are records [type, v]: `type` is the Python type and `v`  *)
(* the text of the value as a sequence of tokens (single characters for    *)
(* API keys, words elsewhere).  Formatting and substring tests work on     *)
(* these token sequences.                                                  *)
(***************************************************************************)
EXTENDS Naturals, Sequences, FiniteSets, TLC

VARIABLES
    module,      \* "init" before the module body has run, then "loaded" or "import_failed"
    conf,        \* the user configuration file, a dict (function) from entry names to values
    headers,     \* the module-level `headers` dict of line 28
    open_conns,  \* number of HTTPSConnection objects created and not yet closed
    last,        \* the record of the last completed top-level call
    w_pc,        \* position inside cloud_wrapper's wrapper: "idle", "try", "except", "else", "done"
    w_payload,   \* the `payload` flag of the decorator in this invocation
    w_pid,       \* `pid` of the wrapper invocation
    w_writes,    \* the _write_pipeline calls made by this wrapper invocation, in order
    w_calls,     \* the invocations of the wrapped function in this wrapper invocation, in order
    w_warnings,  \* the texts passed to warnings.warn by this wrapper invocation
    w_ret,       \* how the wrapper invocation left: return value or raised exception
    next_uuid,   \* number of uuid4 values drawn so far
    hist         \* history: the key stored at the start, the latest 22-character key given to set_key

vars == <<module, conf, headers, open_conns, last, w_pc, w_payload, w_pid,
          w_writes, w_calls, w_warnings, w_ret, next_uuid, hist>>

-----------------------------------------------------------------------------
(* Bounds and program constants *)

\* number of wrapper invocations explored (each draws one uuid4)
MaxUuid == 2

\* the length a valid API key has (`len(user_key) != 22`)
KEY_LEN == 22

\* the length of the keys the docstring of set_key still speaks of ("valid
\* 16 chars length"): a configuration file may hold such a key
OLD_KEY_LEN == 16

-----------------------------------------------------------------------------
(* Python values and text *)

NoneV == [type |-> "NoneType", v |-> <<>>]
StrV(t) == [type |-> "str", v |-> t]
BytesV(t) == [type |-> "bytes", v |-> t]
BoolV(b) == [type |-> "bool", v |-> IF b THEN <<"True">> ELSE <<"False">>]
DictV(t) == [type |-> "dict", v |-> t]
ListV(t) == [type |-> "list", v |-> t]
\* a value json.dumps has no encoding for (a set, an arbitrary object)
ObjV == [type |-> "object", v |-> <<"<object>">>]

\* Python truthiness (`if not key`, `if pipeline_id`, `if dag`, ...)
Truthy(x) ==
    CASE x.type = "NoneType" -> FALSE
      [] x.type = "bool" -> x.v = <<"True">>
      [] x.type \in {"str", "bytes", "dict", "list"} -> x.v # <<>>
      [] OTHER -> TRUE

\* str(x) / "{}".format(x)
Str(x) ==
    CASE x.type = "NoneType" -> <<"None">>
      [] x.type = "bytes" -> <<"b'">> \o x.v \o <<"'">>
      [] x.type = "dict" -> <<"{">> \o x.v \o <<"}">>
      [] x.type = "list" -> <<"[">> \o x.v \o <<"]">>
      [] OTHER -> x.v

\* prefix.format(x) for the one-placeholder templates of the module
Format(prefix, x) == StrV(prefix \o Str(x))

\* `needle in text` on token sequences
Contains(text, needle) ==
    \E i \in 0..(Len(text) - Len(needle)) :
        SubSeq(text, i + 1, i + Len(needle)) = needle

\* a string of n copies of the character c
Rep(c, n) == [i \in 1..n |-> c]

\* exceptions: the class, whether the class derives from Exception, and args
Exc(cls, args) ==
    [cls |-> cls,
     is_exception |-> cls \notin {"KeyboardInterrupt", "SystemExit", "GeneratorExit"},
     args |-> args]
NoExc == Exc("", <<>>)

\* str(e) and str(e.args) for an exception with at most one argument
StrExc(e) == e.args
StrArgs(e) == IF e.args = <<>> THEN <<"(", ")">> ELSE <<"(">> \o e.args \o <<",", ")">>

\* the ways a call leaves
Return(x) == [kind |-> "return", val |-> x, exc |-> NoExc]
Raise(e) == [kind |-> "raise", val |-> NoneV, exc |-> e]
NoRet == [kind |-> "none", val |-> NoneV, exc |-> NoExc]

\* a dict as a function from names to values
EmptyDict == [k \in {} |-> NoneV]
DictSet(d, k, x) == [n \in DOMAIN d \cup {k} |-> IF n = k THEN x ELSE d[n]]

-----------------------------------------------------------------------------
(* The message templates of the module *)

MSG_NO_KEY == <<"No", "cloud", "API", "Key", "was", "found", ":">>
MSG_NO_PID == <<"No", "input", "pipeline_id", ":">>
MSG_NO_STATUS == <<"No", "input", "pipeline", "status", ":">>
MSG_ISSUE_FETCHING == <<"Issue", "fetching", "pipeline">>
MSG_ERROR_FETCHING == <<"Error", "fetching", "pipeline">>
MSG_ISSUE_DELETING == <<"Issue", "deleting", "pipeline">>
CONTENT_TYPE == StrV(<<"application/json">>)

InitHeaders == DictSet(EmptyDict, "Content-type", CONTENT_TYPE)

-----------------------------------------------------------------------------
(* Key management *)

\* read_conf_file(path).get('cloud_key', None)
get_key(c) == IF "cloud_key" \in DOMAIN c THEN c["cloud_key"] ELSE NoneV

\* update_conf_file(path, d): the entries of d replace or extend those stored
update_conf_file(c, d) ==
    [n \in DOMAIN c \cup DOMAIN d |-> IF n \in DOMAIN d THEN d[n] ELSE c[n]]

MSG_MALFORMED ==
    <<"The", "API", "key", "is", "malformed.", "Please", "validate", "your",
      "key", "or", "contact", "the", "admin">>
MSG_STORED == <<"Key", "was", "stored">>

\* the validation of _set_key: `not user_key or len(user_key) != 22`
key_invalid_nolen(user_key) == ~Truthy(user_key)
key_invalid(user_key) == ~Truthy(user_key) \/ Len(user_key.v) # KEY_LEN

\* _set_key(user_key): the new configuration, the dicts handed to
\* update_conf_file, the warnings emitted and the messages printed
_set_key(c, user_key) ==
    IF key_invalid(user_key)
    THEN [conf |-> c, conf_writes |-> <<>>,
          warnings |-> <<MSG_MALFORMED>>, printed |-> <<>>]
    ELSE LET user_key_dict == DictSet(EmptyDict, "cloud_key", user_key)
         IN [conf |-> update_conf_file(c, user_key_dict),
             conf_writes |-> <<user_key_dict>>,
             warnings |-> <<>>,
             printed |-> <<Format(MSG_STORED, user_key).v>>]

-----------------------------------------------------------------------------
(* Connections and the remote service *)

\* what the remote exchange (conn.request, conn.getresponse().read()) does:
\* a response body comes back, or an exception is raised on the way
Respond(body) == [kind |-> "response", body |-> body, exc |-> NoExc]
Fail(e) == [kind |-> "raise", body |-> <<>>, exc |-> e]

\* `finally: conn.close()`
conn_close_on_success(events) ==
    IF "response" \in {events[i] : i \in 1..Len(events)}
    THEN Append(events, "close") ELSE events
conn_close(events) == Append(events, "close")

\* connection events of one exchange on a conn: the request is issued, and
\* the response read unless an exception came first
Exchange(out) ==
    IF out.kind = "response" THEN <<"request", "response">> ELSE <<"request">>

Count(events, e) == Cardinality({i \in 1..Len(events) : events[i] = e})

\* connections open after a call that began with n open
OpenAfter(n, events) == (n + Count(events, "open")) - Count(events, "close")

Request(method, hdrs, body) ==
    [method |-> method, resource |-> "/prod/pipelines", headers |-> hdrs, body |-> body]

-----------------------------------------------------------------------------
(* JSON *)

JsonTypes == {"NoneType", "bool", "str", "dict", "list"}

RECURSIVE json_items(_)
json_items(pairs) ==
    IF pairs = <<>> THEN <<>>
    ELSE <<pairs[1].k, ":">> \o Str(pairs[1].x)
         \o (IF Len(pairs) > 1 THEN <<",">> ELSE <<>>)
         \o json_items(Tail(pairs))

\* json.dumps(body) for a dict given as its (key, value) pairs in insertion
\* order: the text, or the TypeError for the first value without an encoding
json_dumps(pairs) ==
    LET bad == {i \in 1..Len(pairs) : pairs[i].x.type \notin JsonTypes}
    IN IF bad = {}
       THEN [ok |-> TRUE, text |-> <<"{">> \o json_items(pairs) \o <<"}">>, exc |-> NoExc]
       ELSE LET i == CHOOSE j \in bad : \A m \in bad : j <= m
            IN [ok |-> FALSE, text |-> <<>>,
                exc |-> Exc("TypeError",
                            <<"Object", "of", "type", pairs[i].x.type,
                              "is", "not", "JSON", "serializable">>)]

\* json.loads(content) on the response bodies the model draws: a list of
\* pipeline records (one token per record: its `updated` value, or "{}" for a
\* record without one), an object, or text that is no JSON
json_loads(text) ==
    IF Len(text) >= 2 /\ text[1] = "[" /\ text[Len(text)] = "]"
    THEN [ok |-> TRUE, type |-> "list", items |-> SubSeq(text, 2, Len(text) - 1)]
    ELSE IF Len(text) >= 2 /\ text[1] = "{" /\ text[Len(text)] = "}"
    THEN [ok |-> TRUE, type |-> "dict", items |-> SubSeq(text, 2, Len(text) - 1)]
    ELSE [ok |-> FALSE, type |-> "", items |-> <<>>]

-----------------------------------------------------------------------------
(* Pipeline fetch *)

NumericTokens == {"1700000000"}

\* get_last_run(timestamp) for the `updated` value of one record
get_last_run(timestamp) ==
    IF timestamp = "null" THEN <<"Has", "not", "been", "run">>
    ELSE IF timestamp \in NumericTokens
    THEN <<"<naturaltime>", "(", "<%b %d, %Y at %H:%M>", ")">>
    ELSE <<timestamp>>

RECURSIVE humanize_items(_)
humanize_items(items) ==
    IF items = <<>> THEN <<>>
    ELSE <<"{", "updated", ":">> \o get_last_run(items[1]) \o <<"}">>
         \o humanize_items(Tail(items))

\* The result of a call of a pipeline operation: how it left, the connection
\* events of the call, the requests issued, and the module-level headers after
Result(ret, events, reqs, hdrs) ==
    [ret |-> ret, events |-> events, reqs |-> reqs, headers |-> hdrs]

\* get_pipeline(pipeline_id, verbose); hdrs is the module-level dict, which
\* the function shadows with a local one
get_pipeline(c, hdrs, pipeline_id, verbose, out) ==
    LET key == get_key(c)
        h0 == DictSet(EmptyDict, "api_key", key)
        h1 == IF Truthy(pipeline_id) THEN DictSet(h0, "pipeline_id", pipeline_id) ELSE h0
        h2 == IF Truthy(verbose) THEN DictSet(h1, "verbose", BoolV(TRUE)) ELSE h1
        req == Request("GET", h2, <<>>)
        content == BytesV(out.body)
        pipeline == json_loads(out.body)
    IN IF ~Truthy(key)
       THEN Result(Return(Format(MSG_NO_KEY, key)), <<>>, <<>>, hdrs)
       ELSE IF out.kind = "raise"
       THEN Result(Raise(out.exc), conn_close(<<"open">> \o Exchange(out)), <<req>>, hdrs)
       ELSE IF ~pipeline.ok
       THEN Result(Return(Format(MSG_ISSUE_FETCHING, content)),
                   conn_close(<<"open">> \o Exchange(out)), <<req>>, hdrs)
       ELSE IF pipeline.type = "dict" /\ pipeline.items # <<>>
       THEN Result(Raise(Exc("TypeError", <<"string", "indices", "must", "be", "integers">>)),
                   conn_close(<<"open">> \o Exchange(out)), <<req>>, hdrs)
       ELSE IF pipeline.type = "dict"
       THEN Result(Return(DictV(<<>>)),
                   conn_close(<<"open">> \o Exchange(out)), <<req>>, hdrs)
       ELSE IF \E i \in 1..Len(pipeline.items) : pipeline.items[i] = "{}"
       THEN Result(Raise(Exc("KeyError", <<"'updated'">>)),
                   conn_close(<<"open">> \o Exchange(out)), <<req>>, hdrs)
       ELSE Result(Return(ListV(humanize_items(pipeline.items))),
                   conn_close(<<"open">> \o Exchange(out)), <<req>>, hdrs)

-----------------------------------------------------------------------------
(* Pipeline write *)

Pair(k, x) == [k |-> k, x |-> x]

\* the body dict of _write_pipeline, as its pairs in insertion order
write_body(pipeline_id, status, log, pipeline_name, dag) ==
    <<Pair("pipeline_id", pipeline_id), Pair("status", status)>>
    \o (IF Truthy(pipeline_name) THEN <<Pair("pipeline_name", pipeline_name)>> ELSE <<>>)
    \o (IF Truthy(log) THEN <<Pair("log", log)>> ELSE <<>>)
    \o (IF Truthy(dag) THEN <<Pair("dag", dag)>> ELSE <<>>)

\* the headers a POST is sent with: the module-level dict, with api_key set
write_headers(hdrs, key) == DictSet(hdrs, "api_key", key)

\* the guards of _write_pipeline, in the order of the code; <<>> when all pass
write_guards_status_first(key, pipeline_id, status) ==
    IF ~Truthy(key) THEN MSG_NO_KEY
    ELSE IF ~Truthy(status) THEN MSG_NO_STATUS
    ELSE IF ~Truthy(pipeline_id) THEN MSG_NO_PID
    ELSE <<>>
write_guards_pid_first(key, pipeline_id, status) ==
    IF ~Truthy(pipeline_id) THEN MSG_NO_PID
    ELSE IF ~Truthy(key) THEN MSG_NO_KEY
    ELSE IF ~Truthy(status) THEN MSG_NO_STATUS
    ELSE <<>>
write_guards(key, pipeline_id, status) ==
    IF ~Truthy(key) THEN MSG_NO_KEY
    ELSE IF ~Truthy(pipeline_id) THEN MSG_NO_PID
    ELSE IF ~Truthy(status) THEN MSG_NO_STATUS
    ELSE <<>>

\* what `except Exception as e: return "Error fetching pipeline {}".format(e)`
\* does with an exception raised in the try block
write_except_reraise(e) == Raise(e)
write_except(e) == Return(Format(MSG_ERROR_FETCHING, StrV(StrExc(e))))

\* _write_pipeline(pipeline_id, status, log, pipeline_name, dag)
_write_pipeline(c, hdrs, pipeline_id, status, log, pipeline_name, dag, out) ==
    LET key == get_key(c)
        guard == write_guards(key, pipeline_id, status)
        h == write_headers(hdrs, key)
        dumped == json_dumps(write_body(pipeline_id, status, log, pipeline_name, dag))
        req == Request("POST", h, dumped.text)
    IN IF guard # <<>>
       THEN Result(Return(Format(guard, key)), <<>>, <<>>, hdrs)
       ELSE IF ~dumped.ok
       THEN Result(write_except(dumped.exc), conn_close(<<"open">>), <<>>, h)
       ELSE IF out.kind = "raise"
       THEN Result(write_except(out.exc), conn_close(<<"open">> \o Exchange(out)), <<req>>, h)
       ELSE Result(Return(BytesV(out.body)),
                   conn_close(<<"open">> \o Exchange(out)), <<req>>, h)

-----------------------------------------------------------------------------
(* Pipeline delete *)

delete_except(e) == Return(Format(MSG_ISSUE_DELETING, StrV(StrExc(e))))

\* delete_pipeline(pipeline_id)
delete_pipeline(c, hdrs, pipeline_id, out) ==
    LET key == get_key(c)
        h == DictSet(DictSet(hdrs, "api_key", key), "pipeline_id", pipeline_id)
        req == Request("DELETE", h, <<>>)
    IN IF ~Truthy(key)
       THEN Result(Return(Format(MSG_NO_KEY, key)), <<>>, <<>>, hdrs)
       ELSE IF ~Truthy(pipeline_id)
       THEN Result(Return(Format(MSG_NO_PID, key)), <<>>, <<>>, hdrs)
       ELSE IF out.kind = "raise"
       THEN Result(delete_except(out.exc), conn_close(<<"open">> \o Exchange(out)), <<req>>, h)
       ELSE Result(Return(BytesV(out.body)),
                   conn_close(<<"open">> \o Exchange(out)), <<req>>, h)

-----------------------------------------------------------------------------
(* Lifecycle decorator: the pieces of cloud_wrapper's wrapper *)

\* str(uuid.uuid4()): the n-th value drawn
uuid4(n) == StrV(<<"uuid4", ToString(n)>>)

\* parse_dag(result): the serialized DAG snapshot of a DAG, absent for a
\* result that is no computation graph
parse_dag(result) ==
    IF result.type = "DAG"
    THEN DictV(<<"dag_size", ":", ToString(Len(result.v)), ",", "tasks", ":">> \o result.v)
    ELSE NoneV

STATUS_FINISHED == StrV(<<"finished">>)
STATUS_ERROR == StrV(<<"error">>)
STATUS_STARTED == StrV(<<"started">>)

\* `except Exception as e`: which exceptions of the wrapped function it catches
catches_all(e) == TRUE
catches(e) == e.is_exception

\* `raise e` at the end of the except branch
wrapper_raise_new(e) == Raise(Exc("RuntimeError", e.args))
wrapper_raise(e) == Raise(e)

\* `return result`
wrapper_return_dag(result, dag) == Return(dag)
wrapper_return(result, dag) == Return(result)

\* `if 'Error' in res: warnings.warn(res)` for res = str(<what the write returned>):
\* the texts warned about (warnings.warn returns under the default filters)
warn_if_error(res) == IF Contains(res, <<"Error">>) THEN <<res>> ELSE <<>>

\* one _write_pipeline call of the wrapper, as recorded in w_writes
WriteCall(pid, status, log, dag, out, r) ==
    [pipeline_id |-> pid, status |-> status, log |-> log, dag |-> dag, out |-> out,
     ret |-> r.ret, events |-> r.events, reqs |-> r.reqs]

-----------------------------------------------------------------------------
(* Inputs *)

Key22a == StrV(Rep("a", KEY_LEN))
Key22b == StrV(Rep("b", KEY_LEN))
KeyShort == StrV(Rep("a", KEY_LEN - 1))
KeyLong == StrV(Rep("a", KEY_LEN + 1))
KeyOld == StrV(Rep("a", OLD_KEY_LEN))
EmptyStr == StrV(<<>>)

\* keys given to set_key
UserKeys == {NoneV, EmptyStr, KeyShort, Key22a, Key22b, KeyLong}

\* the configuration files the program may start with: no key, an empty key,
\* a key of the old length (a valid key gets there through set_key)
BaseConf == DictSet(EmptyDict, "stats_enabled", BoolV(TRUE))
InitConfs ==
    {BaseConf} \cup {DictSet(BaseConf, "cloud_key", k) : k \in {EmptyStr, KeyOld}}

\* pipeline ids given to get_pipeline and write_pipeline, and to delete_pipeline
PipelineIds == {NoneV, StrV(<<"p1">>)}
DeletedIds == {NoneV, StrV(<<"p2">>)}
Statuses == {NoneV, EmptyStr, STATUS_STARTED}
Verbose == {NoneV, BoolV(TRUE)}

\* (log, pipeline_name, dag) of a write_pipeline call
Extras ==
    {<<NoneV, NoneV, NoneV>>,
     <<StrV(<<"log">>), StrV(<<"name">>), DictV(<<"dag_size", ":", "0">>)>>,
     <<NoneV, NoneV, ObjV>>}

ConnectionRefused == Exc("ConnectionRefusedError", <<"Connection", "refused">>)
TimedOut == Exc("timeout", <<"timed", "out">>)

\* what the service answers to POST and DELETE
WriteOutcomes ==
    {Respond(<<"ok">>), Respond(<<"Internal", "Server", "Error">>), Fail(TimedOut)}

\* what the service answers to GET
GetOutcomes ==
    {Respond(<<"[", "null", "1700000000", "soon", "]">>),
     Respond(<<"[", "{}", "]">>),
     Respond(<<"{", "message", "}">>),
     Respond(<<"<html>">>),
     Fail(ConnectionRefused)}

DagV == [type |-> "DAG", v |-> <<"load", "clean">>]

\* what the wrapped function does: returns a value or raises
FuncOutcomes ==
    {Return(DagV), Return(NoneV),
     Raise(Exc("ValueError", <<"boom">>)),
     Raise(Exc("KeyboardInterrupt", <<>>))}

-----------------------------------------------------------------------------
(* State *)

NoArgs ==
    [pipeline_id |-> NoneV, status |-> NoneV, log |-> NoneV, pipeline_name |-> NoneV,
     dag |-> NoneV, verbose |-> NoneV, user_key |-> NoneV]

\* the record of a completed top-level call
Call(op, args, out, key, ret, events, reqs, conf_writes, warnings, printed) ==
    [op |-> op, args |-> args, out |-> out, key |-> key, ret |-> ret,
     events |-> events, reqs |-> reqs, conf_writes |-> conf_writes,
     warnings |-> warnings, printed |-> printed]

NoCall == Call("none", NoArgs, Respond(<<>>), NoneV, NoRet, <<>>, <<>>, <<>>, <<>>, <<>>)

Init ==
    /\ module = "init"
    /\ conf \in InitConfs
    /\ headers = InitHeaders
    /\ open_conns = 0
    /\ last = NoCall
    /\ w_pc = "idle"
    /\ w_payload = FALSE
    /\ w_pid = NoneV
    /\ w_writes = <<>>
    /\ w_calls = <<>>
    /\ w_warnings = <<>>
    /\ w_ret = NoRet
    /\ next_uuid = 0
    /\ hist = [key0 |-> get_key(conf), supplied |-> NoneV]

wrapper_vars == <<w_pc, w_payload, w_pid, w_writes, w_calls, w_warnings, w_ret, next_uuid>>

\* the observation of the wrapper is cleared by a top-level operation, and
\* the record of the last operation by a wrapper invocation
WrapperCleared ==
    /\ w_pc' = "idle"
    /\ w_payload' = FALSE
    /\ w_pid' = NoneV
    /\ w_writes' = <<>>
    /\ w_calls' = <<>>
    /\ w_warnings' = <<>>
    /\ w_ret' = NoRet
    /\ UNCHANGED next_uuid

\* the top level may call an operation: the module is imported and no
\* wrapper invocation is under way
AtTopLevel == module = "loaded" /\ w_pc \in {"idle", "done"}

IMPORT_PIPELINE_ID == StrV(<<"9f9e18e0-d027-4827-bd4d-1908f294bca2">>)

\* the module body: line 237 calls get_pipeline when the module is imported;
\* an exception it raises makes the import fail
ModuleImport(out) ==
    /\ module = "init"
    /\ LET r == get_pipeline(conf, headers, IMPORT_PIPELINE_ID, BoolV(FALSE), out)
           args == [NoArgs EXCEPT !.pipeline_id = IMPORT_PIPELINE_ID,
                                  !.verbose = BoolV(FALSE)]
       IN /\ module' = IF r.ret.kind = "raise" THEN "import_failed" ELSE "loaded"
          /\ headers' = r.headers
          /\ open_conns' = OpenAfter(open_conns, r.events)
          /\ last' = Call("get_pipeline", args, out, get_key(conf), r.ret,
                          r.events, r.reqs, <<>>, <<>>, <<>>)
    /\ UNCHANGED <<conf, wrapper_vars, hist>>

SetKey(user_key) ==
    /\ AtTopLevel
    /\ LET r == _set_key(conf, user_key)
       IN /\ conf' = r.conf
          /\ last' = Call("set_key", [NoArgs EXCEPT !.user_key = user_key],
                          Respond(<<>>), get_key(conf), Return(NoneV), <<>>, <<>>,
                          r.conf_writes, r.warnings, r.printed)
    /\ hist' = IF user_key.type = "str" /\ Len(user_key.v) = 22
               THEN [hist EXCEPT !.supplied = user_key] ELSE hist
    /\ WrapperCleared
    /\ UNCHANGED <<module, headers, open_conns>>

GetPipeline(pipeline_id, verbose, out) ==
    /\ AtTopLevel
    /\ LET r == get_pipeline(conf, headers, pipeline_id, verbose, out)
       IN /\ headers' = r.headers
          /\ open_conns' = OpenAfter(open_conns, r.events)
          /\ last' = Call("get_pipeline",
                          [NoArgs EXCEPT !.pipeline_id = pipeline_id, !.verbose = verbose],
                          out, get_key(conf), r.ret, r.events, r.reqs, <<>>, <<>>, <<>>)
    /\ WrapperCleared
    /\ UNCHANGED <<module, conf, hist>>

WritePipeline(pipeline_id, status, extras, out) ==
    /\ AtTopLevel
    /\ LET r == _write_pipeline(conf, headers, pipeline_id, status,
                                extras[1], extras[2], extras[3], out)
       IN /\ headers' = r.headers
          /\ open_conns' = OpenAfter(open_conns, r.events)
          /\ last' = Call("write_pipeline",
                          [NoArgs EXCEPT !.pipeline_id = pipeline_id, !.status = status,
                                         !.log = extras[1], !.pipeline_name = extras[2],
                                         !.dag = extras[3]],
                          out, get_key(conf), r.ret, r.events, r.reqs, <<>>, <<>>, <<>>)
    /\ WrapperCleared
    /\ UNCHANGED <<module, conf, hist>>

DeletePipeline(pipeline_id, out) ==
    /\ AtTopLevel
    /\ LET r == delete_pipeline(conf, headers, pipeline_id, out)
       IN /\ headers' = r.headers
          /\ open_conns' = OpenAfter(open_conns, r.events)
          /\ last' = Call("delete_pipeline", [NoArgs EXCEPT !.pipeline_id = pipeline_id],
                          out, get_key(conf), r.ret, r.events, r.reqs, <<>>, <<>>, <<>>)
    /\ WrapperCleared
    /\ UNCHANGED <<module, conf, hist>>

-----------------------------------------------------------------------------
(* The wrapper of cloud_wrapper, statement by statement *)

top_vars == <<module, conf, last, hist>>

\* lines 201-206: a fresh pid, the 'started' write, the warning
WrapperEnter(payload, out) ==
    /\ AtTopLevel
    /\ next_uuid < MaxUuid
    /\ LET pid == uuid4(next_uuid + 1)
           r == _write_pipeline(conf, headers, pid, STATUS_STARTED, NoneV, NoneV, NoneV, out)
           res == Str(r.ret.val)
       IN /\ next_uuid' = next_uuid + 1
          /\ w_pid' = pid
          /\ w_payload' = payload
          /\ w_writes' = <<WriteCall(pid, STATUS_STARTED, NoneV, NoneV, out, r)>>
          /\ w_calls' = <<>>
          /\ headers' = r.headers
          /\ open_conns' = OpenAfter(open_conns, r.events)
          /\ IF r.ret.kind = "raise"
             THEN w_pc' = "done" /\ w_ret' = r.ret /\ w_warnings' = <<>>
             ELSE w_pc' = "try" /\ w_ret' = NoRet /\ w_warnings' = warn_if_error(res)
    /\ last' = NoCall
    /\ UNCHANGED <<module, conf, hist>>

\* lines 208-213: the wrapped function is called, with the fresh _payload
\* dict first when `payload` is set; an exception that `except Exception`
\* does not catch leaves the wrapper at once
WrapperCall(fo) ==
    /\ module = "loaded"
    /\ w_pc = "try"
    /\ w_calls' = Append(w_calls,
                         [args |-> IF w_payload THEN <<DictV(<<>>)>> ELSE <<>>,
                          outcome |-> fo])
    /\ IF fo.kind = "return"
       THEN w_pc' = "else" /\ w_ret' = w_ret
       ELSE IF catches(fo.exc)
       THEN w_pc' = "except" /\ w_ret' = w_ret
       ELSE w_pc' = "done" /\ w_ret' = fo
    /\ UNCHANGED <<top_vars, headers, open_conns, w_payload, w_pid, w_writes,
                   w_warnings, next_uuid>>

\* lines 213-220: the 'error' write with the exception's args as log, the
\* warning, `raise e`
WrapperExcept(out) ==
    /\ module = "loaded"
    /\ w_pc = "except"
    /\ LET e == w_calls[Len(w_calls)].outcome.exc
           log == StrV(StrArgs(e))
           r == _write_pipeline(conf, headers, w_pid, STATUS_ERROR, log, NoneV, NoneV, out)
           res == Str(r.ret.val)
       IN /\ w_writes' = Append(w_writes, WriteCall(w_pid, STATUS_ERROR, log, NoneV, out, r))
          /\ headers' = r.headers
          /\ open_conns' = OpenAfter(open_conns, r.events)
          /\ IF r.ret.kind = "raise"
             THEN w_ret' = r.ret /\ w_warnings' = w_warnings
             ELSE w_ret' = wrapper_raise(e) /\ w_warnings' = w_warnings \o warn_if_error(res)
    /\ w_pc' = "done"
    /\ UNCHANGED <<top_vars, w_payload, w_pid, w_calls, next_uuid>>

\* lines 221-230: parse_dag, the 'finished' write with the dag, the warning,
\* `return result`
WrapperElse(out) ==
    /\ module = "loaded"
    /\ w_pc = "else"
    /\ LET result == w_calls[Len(w_calls)].outcome.val
           dag == parse_dag(result)
           r == _write_pipeline(conf, headers, w_pid, STATUS_FINISHED, NoneV, NoneV, dag, out)
           res == Str(r.ret.val)
       IN /\ w_writes' = Append(w_writes, WriteCall(w_pid, STATUS_FINISHED, NoneV, dag, out, r))
          /\ headers' = r.headers
          /\ open_conns' = OpenAfter(open_conns, r.events)
          /\ IF r.ret.kind = "raise"
             THEN w_ret' = r.ret /\ w_warnings' = w_warnings
             ELSE w_ret' = wrapper_return(result, dag)
                  /\ w_warnings' = w_warnings \o warn_if_error(res)
    /\ w_pc' = "done"
    /\ UNCHANGED <<top_vars, w_payload, w_pid, w_calls, next_uuid>>

Next ==
    \/ \E out \in GetOutcomes : ModuleImport(out)
    \/ \E k \in UserKeys : SetKey(k)
    \/ \E p \in PipelineIds, v \in Verbose, out \in GetOutcomes : GetPipeline(p, v, out)
    \/ \E p \in PipelineIds, st \in Statuses, x \in Extras, out \in WriteOutcomes :
           WritePipeline(p, st, x, out)
    \/ \E p \in DeletedIds, out \in WriteOutcomes : DeletePipeline(p, out)
    \/ \E payload \in BOOLEAN, out \in WriteOutcomes : WrapperEnter(payload, out)
    \/ \E fo \in FuncOutcomes : WrapperCall(fo)
    \/ \E out \in WriteOutcomes : WrapperExcept(out)
    \/ \E out \in WriteOutcomes : WrapperElse(out)

Spec == Init /\ [][Next]_vars

-----------------------------------------------------------------------------
(* Vocabulary of the properties *)

PipelineOps == {"get_pipeline", "write_pipeline", "delete_pipeline"}

\* the cloud_key entry of the configuration file, None when there is none
StoredKey == IF "cloud_key" \in DOMAIN conf THEN conf["cloud_key"] ELSE NoneV

\* no API key is configured: the entry is absent or empty
NoKeyConfigured == StoredKey.type = "NoneType" \/ StoredKey.v = <<>>

\* a key is stored and is not 22 characters long
MalformedKeyStored == StoredKey.type = "str" /\ Len(StoredKey.v) # 22

Missing(x) == x.type = "NoneType" \/ x.v = <<>>

\* the call returned a string containing the words
ReturnsText(call, words) ==
    /\ call.ret.kind = "return"
    /\ call.ret.val.type = "str"
    /\ Contains(call.ret.val.v, words)

\* the call opened no connection and issued no request
NoNetwork(call) == call.events = <<>> /\ call.reqs = <<>>

\* the write-pipeline and delete-pipeline calls on record: the last top-level
\* call when it is one, and the writes of the wrapper invocation
WriteLikeCalls ==
    (IF last.op \in {"write_pipeline", "delete_pipeline"} THEN {last} ELSE {})
    \cup {w_writes[i] : i \in 1..Len(w_writes)}

\* a call never raises: it returns the raw response body when the service
\* answered, and a string embedding the exception when the exchange raised
ReturnsValue(call) ==
    /\ call.ret.kind = "return"
    /\ call.ret.val.type \in {"bytes", "str"}
    /\ (call.reqs # <<>> /\ call.out.kind = "response") => call.ret.val = BytesV(call.out.body)
    /\ (call.reqs # <<>> /\ call.out.kind = "raise") =>
           /\ call.ret.val.type = "str"
           /\ Contains(call.ret.val.v, call.out.exc.args)
    /\ (call.events # <<>> /\ call.reqs = <<>>) =>
           /\ call.ret.val.type = "str"
           /\ Contains(call.ret.val.v, <<"not", "JSON", "serializable">>)

\* one connection opened first, at most one request, closed last
OneConnection(call) ==
    /\ Count(call.events, "open") = 1
    /\ call.events[1] = "open"
    /\ Count(call.events, "close") = 1
    /\ call.events[Len(call.events)] = "close"
    /\ Count(call.events, "request") <= 1
    /\ Len(call.reqs) = Count(call.events, "request")

\* the argument guards of the last top-level call pass
LastPassesGuards ==
    /\ last.op \in PipelineOps
    /\ ~Missing(last.key)
    /\ last.op \in {"write_pipeline", "delete_pipeline"} => ~Missing(last.args.pipeline_id)
    /\ last.op = "write_pipeline" => ~Missing(last.args.status)

-----------------------------------------------------------------------------
(* Properties *)

\* C3: write_pipeline and delete_pipeline never raise: whatever the arguments
\* and whatever the remote exchange does (the service answers, the exchange
\* raises, the body cannot be serialized), the call returns the raw response
\* body or a string embedding the exception.
C3_WriteDeleteNeverRaise == \A call \in WriteLikeCalls : ReturnsValue(call)

C3_Witness ==
    /\ last.op = "write_pipeline"
    /\ last.out.kind = "raise"
    /\ last.reqs # <<>>
    /\ ReturnsText(last, <<"Error", "fetching", "pipeline", "timed", "out">>)

\* C4: a pipeline operation that passes its argument guards opens exactly one
\* connection, issues at most one request on it and has closed it when the
\* call returns or raises; one that does not pass opens none; no connection
\* is ever left open.
C4_ConnectionClosed ==
    /\ open_conns = 0
    /\ last.op \in PipelineOps =>
           IF LastPassesGuards THEN OneConnection(last) ELSE NoNetwork(last)
    /\ \A i \in 1..Len(w_writes) :
           IF Missing(StoredKey) THEN NoNetwork(w_writes[i]) ELSE OneConnection(w_writes[i])

C4_Witness ==
    /\ last.op = "get_pipeline"
    /\ last.ret.kind = "raise"
    /\ last.events = <<"open", "request", "close">>
    /\ open_conns = 0

\* C5: with no API key configured, get_pipeline, write_pipeline and
\* delete_pipeline return, for any arguments, a string containing
\* "No cloud API Key", and open no connection and issue no request.
C5_NoKeyShortCircuits ==
    (last.op \in PipelineOps /\ NoKeyConfigured) =>
        /\ ReturnsText(last, <<"No", "cloud", "API", "Key">>)
        /\ NoNetwork(last)

C5_Witness ==
    /\ last.op = "write_pipeline"
    /\ NoKeyConfigured
    /\ Missing(last.args.pipeline_id)
    /\ ReturnsText(last, <<"No", "cloud", "API", "Key">>)

\* C6, as claimed: write_pipeline called with a configured key and an empty or
\* missing status returns a string containing "No input pipeline status" and
\* issues no network call, for every pipeline_id, a missing one included.
C6_Original ==
    (last.op = "write_pipeline" /\ ~NoKeyConfigured /\ Missing(last.args.status)) =>
        /\ ReturnsText(last, <<"No", "input", "pipeline", "status">>)
        /\ NoNetwork(last)

\* C6, amended: write_pipeline called with a configured key and an empty or
\* missing status issues no network call; it returns a string containing
\* "No input pipeline status" when pipeline_id is given, and one containing
\* "No input pipeline_id" when pipeline_id is missing.
C6_StatusGuard ==
    (last.op = "write_pipeline" /\ ~NoKeyConfigured /\ Missing(last.args.status)) =>
        /\ NoNetwork(last)
        /\ IF Missing(last.args.pipeline_id)
           THEN ReturnsText(last, <<"No", "input", "pipeline_id">>)
           ELSE ReturnsText(last, <<"No", "input", "pipeline", "status">>)

C6_Witness ==
    /\ last.op = "write_pipeline"
    /\ ~NoKeyConfigured
    /\ last.args.status = EmptyStr
    /\ ~Missing(last.args.pipeline_id)
    /\ ReturnsText(last, <<"No", "input", "pipeline", "status">>)

C8_MalformedKeyDisables ==
    (last.op \in PipelineOps /\ MalformedKeyStored) =>
        /\ NoNetwork(last)
        /\ last.ret.kind = "return"
        /\ last.ret.val.type = "str"

\* C9: no header is carried from one call to the next: a POST of
\* write_pipeline is sent with exactly api_key (the configured key) and
\* Content-type, and a DELETE carries the pipeline_id of its own call.
C9_NoHeaderCarryOver ==
    /\ \A call \in WriteLikeCalls : \A i \in 1..Len(call.reqs) :
           call.reqs[i].method = "POST" =>
               call.reqs[i].headers =
                   DictSet(DictSet(EmptyDict, "Content-type", StrV(<<"application/json">>)),
                           "api_key", StoredKey)
    /\ (last.op = "delete_pipeline" /\ last.reqs # <<>>) =>
           last.reqs[1].headers["pipeline_id"] = last.args.pipeline_id

-----------------------------------------------------------------------------
(* Properties of the lifecycle decorator *)

\* the outcome of the wrapped function in this invocation
FuncOutcome == w_calls[Len(w_calls)].outcome
FuncRaised == w_calls # <<>> /\ FuncOutcome.kind = "raise"
FuncReturned == w_calls # <<>> /\ FuncOutcome.kind = "return"

\* the exception's class derives from Exception
DerivesFromException(e) ==
    e.cls \notin {"KeyboardInterrupt", "SystemExit", "GeneratorExit"}

\* the statuses of the wrapper's write-pipeline calls, in order
WriteStatuses == [i \in 1..Len(w_writes) |-> w_writes[i].status.v[1]]

WritesWithStatus(st) == {i \in 1..Len(w_writes) : w_writes[i].status = StrV(<<st>>)}

\* the wrapper left by raising the very exception the function raised
PropagatesFuncException ==
    /\ w_ret.kind = "raise"
    /\ w_ret.exc.cls = FuncOutcome.exc.cls
    /\ w_ret.exc.args = FuncOutcome.exc.args

\* C1, as claimed: for every exception the wrapped function raises, the
\* wrapper propagates that exception, and exactly one 'error' write was
\* attempted before it left, whatever the 'started' and 'error' writes did.
C1_Original ==
    (w_pc = "done" /\ FuncRaised) =>
        /\ PropagatesFuncException
        /\ Cardinality(WritesWithStatus("error")) = 1

\* C1, amended: the wrapper propagates every exception of the wrapped
\* function unchanged; exactly one 'error' write was attempted before it left
\* when the exception derives from Exception, and none when it does not
\* (KeyboardInterrupt, SystemExit, GeneratorExit), whatever the writes did.
C1_ExceptionPropagates ==
    (w_pc = "done" /\ FuncRaised) =>
        /\ PropagatesFuncException
        /\ Cardinality(WritesWithStatus("error")) =
               IF DerivesFromException(FuncOutcome.exc) THEN 1 ELSE 0
        /\ WritesWithStatus("finished") = {}

C1_Witness ==
    /\ w_pc = "done"
    /\ ~NoKeyConfigured
    /\ FuncRaised
    /\ FuncOutcome.exc.cls = "ValueError"
    /\ Len(w_writes) = 2
    /\ w_writes[1].out.kind = "raise"
    /\ w_writes[2].out.kind = "raise"
    /\ w_writes[2].status = StrV(<<"error">>)
    /\ w_writes[2].reqs # <<>>
    /\ Len(w_warnings) = 2
    /\ w_ret = Raise(Exc("ValueError", <<"boom">>))

\* C2: when the wrapped function returns normally, the wrapper returns its
\* value unchanged, and the invocation makes exactly two write-pipeline
\* calls: 'started', then 'finished'; no 'error' write.
C2_ReturnPassThrough ==
    (w_pc = "done" /\ FuncReturned) =>
        /\ w_ret.kind = "return"
        /\ w_ret.val = FuncOutcome.val
        /\ WriteStatuses = <<"started", "finished">>

C2_Witness ==
    /\ w_pc = "done"
    /\ ~NoKeyConfigured
    /\ FuncReturned
    /\ FuncOutcome.val.type = "DAG"
    /\ w_ret.val.type = "DAG"
    /\ Len(w_writes) = 2
    /\ w_writes[2].reqs # <<>>
    /\ Contains(w_writes[2].reqs[1].body, <<"dag", ":", "{", "dag_size">>)

\* the parts of the lifecycle protocol that do not depend on how the
\* function ends: 'started' is written before the function is called, the
\* function is called exactly once whatever the 'started' write did, no
\* terminal write precedes the end of the function, and every write carries
\* the pid drawn for this invocation
LifecycleOrder ==
    /\ w_pc = "try" => (w_calls = <<>> /\ WriteStatuses = <<"started">>)
    /\ w_pc \in {"except", "else"} => (Len(w_calls) = 1 /\ WriteStatuses = <<"started">>)
    /\ w_pc = "done" => (Len(w_calls) = 1 /\ WriteStatuses[1] = "started")
    /\ w_pc # "idle" => w_pid = StrV(<<"uuid4", ToString(next_uuid)>>)
    /\ \A i \in 1..Len(w_writes) :
           /\ w_writes[i].pipeline_id = w_pid
           /\ \A j \in 1..Len(w_writes[i].reqs) :
                  Contains(w_writes[i].reqs[j].body, <<"pipeline_id", ":">> \o w_pid.v)

====
